---- MODULE Spec2Model ----
(***************************************************************************)
(* Model of pysar/geocode.py: option resolution (cmd_line_parse,           *)
(* read_template2inps, _check_inps), the metadata transforms               *)
(* (metadata_radar2geo, metadata_geo2radar), output naming                 *)
(* (auto_output_filename) and the batch loop (run_resample, main).         *)
(*                                                                         *)
(* Representation of Python values:                                        *)
(*   - a str is a sequence of tokens ("d1/a.h5" is <<"d1","/","a.h5">>);   *)
(*     concatenation and os.path.join are \o.  A str-or-None field that the *)
(*     code only tests for truthiness holds <<>> for None and for '';       *)
(*   - a float is a record [nan, val]; an optional float is <<>> (None) or  *)
(*     <<f>>; an optional 4-tuple (SNWE) is <<>> or <<s, n, w, e>>;         *)
(*   - a dict is a function on the set of its keys.                         *)
(***************************************************************************)
EXTENDS Integers, Sequences, FiniteSets, TLC

\* Largest number of input files ut.get_file_list returns in the model.
MaxFiles == 2

None == <<>>

F(x) == [nan |-> FALSE, val |-> x]

NaN == [nan |-> TRUE, val |-> 0]

isnan(f) == f.nan

Range(s) == {s[k] : k \in 1..Len(s)}

---------------------------------------------------------------------------
(* String helpers.                                                         *)

\* str.lower() on one token.
LowerTok(t) ==
    CASE t = "NaN" -> "nan"
      [] t = "NAN" -> "nan"
      [] t = "Nan" -> "nan"
      [] OTHER -> t

\* str.lower()
Lower(s) == [k \in 1..Len(s) |-> LowerTok(s[k])]

\* sub in s  (substring test)
Contains(s, sub) ==
    \E k \in 0..(Len(s) - Len(sub)) : SubSeq(s, k + 1, k + Len(sub)) = sub

\* s.split(sep): the pieces of s between the separator tokens.
RECURSIVE Split(_, _)
Split(s, sep) ==
    IF \A k \in 1..Len(s) : s[k] # sep
    THEN <<s>>
    ELSE LET p == CHOOSE k \in 1..Len(s) :
                      s[k] = sep /\ \A j \in 1..(k - 1) : s[j] # sep
         IN <<SubSeq(s, 1, p - 1)>> \o Split(SubSeq(s, p + 1, Len(s)), sep)

DigitVal(t) ==
    CASE t = "0" -> 0 [] t = "1" -> 1 [] t = "2" -> 2 [] t = "3" -> 3
      [] t = "4" -> 4 [] t = "5" -> 5 [] t = "6" -> 6 [] t = "7" -> 7
      [] t = "8" -> 8 [] t = "9" -> 9

\* Decimal value of a sequence of digit tokens.
RECURSIVE Decimal(_)
Decimal(s) ==
    IF s = <<>> THEN 0
    ELSE 10 * Decimal(SubSeq(s, 1, Len(s) - 1)) + DigitVal(s[Len(s)])

\* float(value) for a well-formed (optionally signed) integer literal.
float(s) ==
    IF s[1] = "-" THEN F(0 - Decimal(Tail(s))) ELSE F(Decimal(s))

\* os.path.basename(path)
RECURSIVE basename(_)
basename(path) ==
    IF \A k \in 1..Len(path) : path[k] # "/"
    THEN path
    ELSE basename(Tail(path))

\* os.path.join(a, b) for a relative b
join(a, b) == a \o <<"/">> \o b

---------------------------------------------------------------------------
(* The environment of one run: what the command line, the template file    *)
(* and the collaborators (ut.get_file_list, readfile.read_attribute,       *)
(* ut.get_lookup_file, ut.radar2glob, ut.update_file) hand to the code.    *)

VARIABLES
    argv,        \* the command line: a field left out holds None
    template,    \* readfile.read_template + ut.check_template_auto_value
    fileList,    \* ut.get_file_list(inps.file)
    fileAtr,     \* readfile.read_attribute, per path
    lookupPath,  \* ut.get_lookup_file(inps.lookupFile): a path or None
    refLatLon,   \* ut.radar2glob(REF_Y, REF_X, ...)[0:2]
    fresh,       \* output paths that exist and are newer than every input and the lookup table
    inps,        \* the Namespace
    pc,          \* position in main
    res_obj,     \* the resample object of run_resample, None before it is built
    idx,         \* position of the for loop of run_resample
    resampleLog, \* calls of res_obj.resample: <<infile, dsName>>
    writeLog,    \* calls of writefile.write
    retval,      \* value returned by run_resample
    mAtrIn,      \* metadata transforms called directly: the input map
    mAtr,        \* the current map
    mPrev,       \* the map before the last call
    mCalls,      \* number of calls made
    mFn,         \* which transform is called
    mRaised      \* whether a call raised

runVars == <<argv, template, fileList, fileAtr, lookupPath, fresh, inps, pc,
             res_obj, idx, resampleLog, writeLog, retval>>

metaVars == <<mAtrIn, mAtr, mPrev, mCalls, mFn, mRaised>>

vars == <<argv, template, fileList, fileAtr, lookupPath, refLatLon, fresh, inps, pc,
          res_obj, idx, resampleLog, writeLog, retval,
          mAtrIn, mAtr, mPrev, mCalls, mFn, mRaised>>

---------------------------------------------------------------------------
(* Option resolution.                                                      *)

\* parser.parse_args: the Namespace, with the parser's defaults
\* (interpMethod 'nearest', fillValue np.nan) for the options left out.
cmd_line_parse(args) ==
    [file         |-> args.file,
     dset         |-> args.dset,
     radar2geo    |-> args.radar2geo,
     lookupFile   |-> args.lookupFile,
     templateFile |-> args.templateFile,
     SNWE         |-> args.SNWE,
     latStep      |-> args.latStep,
     lonStep      |-> args.lonStep,
     interpMethod |-> IF args.interpMethod = None THEN <<"nearest">> ELSE args.interpMethod,
     fillValue    |-> IF args.fillValue = None THEN NaN ELSE args.fillValue[1],
     updateMode   |-> args.updateMode,
     outfile      |-> args.outfile,
     out_dir      |-> args.out_dir,
     laloStep     |-> None]

\* Variant of laloStepOf that clears the list only when both steps are None
\* (`if inps.laloStep == [None, None]`): C6 must tell it from the code.
laloStepOf_BothNone(latStep, lonStep) ==
    IF latStep = None /\ lonStep = None THEN None ELSE <<latStep, lonStep>>

\* inps.laloStep = [inps.latStep, inps.lonStep]; if None in it: None
laloStepOf(latStep, lonStep) ==
    IF None \in {latStep, lonStep} THEN None ELSE <<latStep[1], lonStep[1]>>

\* tuple([float(i) for i in value.split(',')])
ParseSNWE(value) ==
    LET parts == Split(value, ",") IN [k \in 1..Len(parts) |-> float(parts[k])]

\* fillValue: np.nan if 'nan' in value.lower() else float(value)
ParseFill(value) ==
    IF Contains(Lower(value), <<"nan">>) THEN NaN ELSE float(value)

\* The value the template holds for a key of key_list that passes `if value:`.
TemplateHas(tmpl, key) == key \in DOMAIN tmpl /\ tmpl[key] # <<>>

\* Variant of read_template2inps in which the template fills only the fields
\* that still hold None (`if value and inps_dict[key] is None`): C1 as amended
\* must tell it from the code.
read_template2inps_FillUnset(tmpl, ns) ==
    LET r == [ns EXCEPT
                !.SNWE    = IF TemplateHas(tmpl, "SNWE") /\ @ = None
                            THEN ParseSNWE(tmpl["SNWE"]) ELSE @,
                !.latStep = IF TemplateHas(tmpl, "latStep") /\ @ = None
                            THEN <<float(tmpl["latStep"])>> ELSE @,
                !.lonStep = IF TemplateHas(tmpl, "lonStep") /\ @ = None
                            THEN <<float(tmpl["lonStep"])>> ELSE @]
    IN [r EXCEPT !.laloStep = laloStepOf(r.latStep, r.lonStep)]

read_template2inps(tmpl, ns) ==
    LET r == [ns EXCEPT
                !.SNWE         = IF TemplateHas(tmpl, "SNWE")
                                 THEN ParseSNWE(tmpl["SNWE"]) ELSE @,
                !.latStep      = IF TemplateHas(tmpl, "latStep")
                                 THEN <<float(tmpl["latStep"])>> ELSE @,
                !.lonStep      = IF TemplateHas(tmpl, "lonStep")
                                 THEN <<float(tmpl["lonStep"])>> ELSE @,
                !.interpMethod = IF TemplateHas(tmpl, "interpMethod")
                                 THEN tmpl["interpMethod"] ELSE @,
                !.fillValue    = IF TemplateHas(tmpl, "fillValue")
                                 THEN ParseFill(tmpl["fillValue"]) ELSE @]
    IN [r EXCEPT !.laloStep = laloStepOf(r.latStep, r.lonStep)]

\* Variant of the direction check without its second branch (geo to radar on
\* a file in radar coordinates): C4 must tell it from the code.
AlreadyInTarget_GeocodedOnly(atr, radar2geo) ==
    "Y_FIRST" \in DOMAIN atr /\ radar2geo

\* The direction check of _check_inps on the attributes of the first file:
\* TRUE when the run exits without doing anything.
AlreadyInTarget(atr, radar2geo) ==
    \/ "Y_FIRST" \in DOMAIN atr /\ radar2geo
    \/ "Y_FIRST" \notin DOMAIN atr /\ ~radar2geo

\* Variant of _check_inps that does not raise when no lookup table is found:
\* C3 as amended must tell it from the code.
_check_inps_NoLookupCheck(ns, files, atrOf, lookup) ==
    LET n1 == [ns EXCEPT !.file = files] IN
    IF files = <<>>
    THEN [outcome |-> "Exception", inps |-> n1]
    ELSE LET n2 == IF Len(files) > 1 THEN [n1 EXCEPT !.outfile = None] ELSE n1
             atr == atrOf[files[1]]
         IN IF ("Y_FIRST" \in DOMAIN atr) = n2.radar2geo
            THEN [outcome |-> "exit0", inps |-> n2]
            ELSE LET n3 == [n2 EXCEPT !.lookupFile = lookup] IN
                 [outcome |-> "ok",
                  inps |-> [n3 EXCEPT !.laloStep = laloStepOf(n3.latStep, n3.lonStep)]]

\* Variant of _check_inps that keeps inps.outfile when several files are
\* found: C7 must tell it from the code.
_check_inps_KeepOutfile(ns, files, atrOf, lookup) ==
    LET n1 == [ns EXCEPT !.file = files] IN
    IF files = <<>>
    THEN [outcome |-> "Exception", inps |-> n1]
    ELSE LET atr == atrOf[files[1]]
         IN IF ("Y_FIRST" \in DOMAIN atr) = n1.radar2geo
            THEN [outcome |-> "exit0", inps |-> n1]
            ELSE LET n3 == [n1 EXCEPT !.lookupFile = lookup] IN
                 IF lookup = None
                 THEN [outcome |-> "FileNotFoundError", inps |-> n3]
                 ELSE [outcome |-> "ok",
                       inps |-> [n3 EXCEPT !.laloStep = laloStepOf(n3.latStep, n3.lonStep)]]

\* _check_inps: how it ends ("ok", "Exception", "exit0", "FileNotFoundError")
\* and the Namespace at that point.
_check_inps(ns, files, atrOf, lookup) ==
    LET n1 == [ns EXCEPT !.file = files] IN
    IF files = <<>>
    THEN [outcome |-> "Exception", inps |-> n1]
    ELSE LET n2 == IF Len(files) > 1 THEN [n1 EXCEPT !.outfile = None] ELSE n1
             atr == atrOf[files[1]]
         IN IF AlreadyInTarget(atr, n2.radar2geo)
            THEN [outcome |-> "exit0", inps |-> n2]
            ELSE LET n3 == [n2 EXCEPT !.lookupFile = lookup] IN
                 IF lookup = None
                 THEN [outcome |-> "FileNotFoundError", inps |-> n3]
                 ELSE [outcome |-> "ok",
                       inps |-> [n3 EXCEPT !.laloStep = laloStepOf(n3.latStep, n3.lonStep)]]

\* auto_output_filename(infile, inps)
auto_output_filename(infile, ns) ==
    IF Len(ns.file) = 1 /\ ns.outfile # None
    THEN ns.outfile
    ELSE LET prefix  == IF ns.radar2geo THEN <<"geo_">> ELSE <<"rdr_">>
             outfile == IF ns.dset # None
                        THEN prefix \o ns.dset \o <<".h5">>
                        ELSE prefix \o basename(infile)
         IN IF ns.out_dir # None THEN join(ns.out_dir, outfile) ELSE outfile

---------------------------------------------------------------------------
(* Metadata transforms.                                                    *)

\* atr[key] = value
SetItem(atr, key, value) ==
    [k \in DOMAIN atr \cup {key} |-> IF k = key THEN value ELSE atr[k]]

\* The dict without key (atr.pop(key) when the key is there).
Without(atr, key) == [k \in DOMAIN atr \ {key} |-> atr[k]]

\* try: atr.pop(key)  except: pass
TryPop(atr, key) == IF key \in DOMAIN atr THEN Without(atr, key) ELSE atr

\* try: atr.pop(k1); atr.pop(k2)  except: pass
\* The KeyError of the first pop leaves the try block before the second pop.
TryPop2(atr, k1, k2) ==
    IF k1 \notin DOMAIN atr THEN atr ELSE TryPop(Without(atr, k1), k2)

\* int(np.rint(n / d)): the nearest integer, a tie to the even one.
RInt(n, d) ==
    LET nn == IF d < 0 THEN 0 - n ELSE n
        dd == IF d < 0 THEN 0 - d ELSE d
        q  == nn \div dd
        r  == nn % dd
    IN IF 2 * r < dd THEN q
       ELSE IF 2 * r > dd THEN q + 1
       ELSE IF q % 2 = 0 THEN q ELSE q + 1

\* str(x) of a number
str(x) == <<ToString(x)>>

\* The geometry keys every radar2geo output gets (lines 153-160).
GeoHeader(atr_in, res) ==
    LET a1 == SetItem(atr_in, "LENGTH", res.length)
        a2 == SetItem(a1, "WIDTH", res.width)
        a3 == SetItem(a2, "Y_FIRST", res.SNWE[2])
        a4 == SetItem(a3, "X_FIRST", res.SNWE[3])
        a5 == SetItem(a4, "Y_STEP", res.laloStep[1])
        a6 == SetItem(a5, "X_STEP", res.laloStep[2])
        a7 == SetItem(a6, "Y_UNIT", <<"degrees">>)
    IN SetItem(a7, "X_UNIT", <<"degrees">>)

\* The else branch of the reference point update: drop the reference keys.
DropRef(atr) == TryPop2(TryPop2(atr, "REF_Y", "REF_X"), "REF_LAT", "REF_LON")

\* metadata_radar2geo(atr_in, res_obj): [raised, atr].  ref is what
\* ut.radar2glob returns for the reference pixel.
metadata_radar2geo(atr_in, res, ref) ==
    LET atr == GeoHeader(atr_in, res) IN
    IF "REF_Y" \notin DOMAIN atr
    THEN [raised |-> FALSE, atr |-> atr]
    ELSE IF "REF_X" \notin DOMAIN atr
    THEN [raised |-> TRUE, atr |-> atr]      \* KeyError: atr['REF_X']
    ELSE IF ~isnan(ref.lat) /\ ~isnan(ref.lon)
    THEN LET ref_y == RInt(ref.lat.val - atr["Y_FIRST"].val, atr["Y_STEP"].val)
             ref_x == RInt(ref.lon.val - atr["X_FIRST"].val, atr["X_STEP"].val)
             b1 == SetItem(atr, "REF_LAT", str(ref.lat.val))
             b2 == SetItem(b1, "REF_LON", str(ref.lon.val))
             b3 == SetItem(b2, "REF_Y", str(ref_y))
         IN [raised |-> FALSE, atr |-> SetItem(b3, "REF_X", str(ref_x))]
    ELSE [raised |-> FALSE, atr |-> DropRef(atr)]

RemovedKeys ==
    <<"Y_FIRST", "X_FIRST", "Y_STEP", "X_STEP", "Y_UNIT", "X_UNIT",
      "REF_Y", "REF_X", "REF_LAT", "REF_LON">>

\* Variant of the removal loop with one try around the whole loop, so that
\* the first missing key ends it: C8 must tell it from the code.
RECURSIVE PopEach_OneTry(_, _)
PopEach_OneTry(atr, keys) ==
    IF keys = <<>> \/ Head(keys) \notin DOMAIN atr
    THEN atr
    ELSE PopEach_OneTry(Without(atr, Head(keys)), Tail(keys))

\* for i in [...]: try: atr.pop(i) except: pass
RECURSIVE PopEach(_, _)
PopEach(atr, keys) ==
    IF keys = <<>> THEN atr ELSE PopEach(TryPop(atr, Head(keys)), Tail(keys))

\* metadata_geo2radar(atr_in, res_obj): [raised, atr]
metadata_geo2radar(atr_in, res) ==
    LET a1 == SetItem(atr_in, "LENGTH", res.length)
        a2 == SetItem(a1, "WIDTH", res.width)
    IN [raised |-> FALSE, atr |-> PopEach(a2, RemovedKeys)]

\* resample(lookupFile, dataFile, SNWE, laloStep) and get_geometry_definition():
\* the arguments as passed, and the grid the engine settles on (the requested
\* box and step when given, its own otherwise).
resample(lookupFile, dataFile, SNWE, laloStep) ==
    [file        |-> lookupFile,
     dataFile    |-> dataFile,
     SNWEArg     |-> SNWE,
     laloStepArg |-> laloStep,
     SNWE        |-> IF SNWE # None THEN SNWE ELSE <<F(0), F(4), F(0), F(4)>>,
     laloStep    |-> IF laloStep # None THEN laloStep ELSE <<F(0 - 1), F(1)>>,
     length      |-> 4,
     width       |-> 4]

---------------------------------------------------------------------------
(* Inputs of the model.                                                    *)

P1 == <<"d1", "/", "a.h5">>

P2 == <<"d2", "/", "a.h5">>

P3 == <<"d1", "/", "b.h5">>

CandidatePaths == {P1, P2, P3}

\* Lists of distinct existing files, at most MaxFiles long.
FileLists ==
    {fl \in UNION {[1..n -> CandidatePaths] : n \in 0..MaxFiles} :
        \A a, b \in 1..Len(fl) : a # b => fl[a] # fl[b]}

\* readfile.get_dataset_list(infile, datasetName=None)
Datasets(path) ==
    CASE path = P1 -> << <<"velocity">> >>
      [] path = P2 -> << <<"timeseries">> >>
      [] OTHER     -> << <<"height">>, <<"slantRangeDistance">> >>

\* readfile.get_dataset_list(infile, datasetName=inps.dset)
get_dataset_list(infile, dset) == IF dset # None THEN <<dset>> ELSE Datasets(infile)

\* Attributes of a file in radar coordinates, and of a geocoded file.
RadarAtr ==
    [k \in {"LENGTH", "WIDTH", "REF_Y", "REF_X", "PROJECT_NAME"} |->
        CASE k = "LENGTH" -> <<"9">> [] k = "WIDTH" -> <<"9">>
          [] k = "REF_Y" -> <<"3">> [] k = "REF_X" -> <<"5">> [] OTHER -> <<"p">>]

GeoAtr ==
    [k \in {"LENGTH", "WIDTH", "Y_FIRST", "X_FIRST", "Y_STEP", "X_STEP",
            "Y_UNIT", "X_UNIT", "REF_Y", "REF_X", "REF_LAT", "REF_LON", "PROJECT_NAME"} |->
        CASE k \in {"Y_UNIT", "X_UNIT"} -> <<"degrees">>
          [] k = "PROJECT_NAME" -> <<"p">>
          [] OTHER -> <<"1">>]

LookupFile == <<"geometryRadar.h5">>

BaseArgv ==
    [file         |-> << <<"*.h5">> >>,
     dset         |-> None,
     radar2geo    |-> TRUE,
     lookupFile   |-> None,
     templateFile |-> None,
     SNWE         |-> None,
     latStep      |-> None,
     lonStep      |-> None,
     interpMethod |-> None,
     fillValue    |-> None,
     updateMode   |-> FALSE,
     outfile      |-> None,
     out_dir      |-> None]

\* Templates: each recognised key left out, empty ('' or None after
\* check_template_auto_value), or holding a value.
Templates ==
    LET Maybe(vals) == {<<"absent">>} \cup {<<"has", v>> : v \in vals}
        choices ==
          [SNWE         : Maybe({<<>>, <<"1", ",", "3", ",", "5", ",", "7">>}),
           latStep      : Maybe({<<>>, <<"2">>}),
           lonStep      : Maybe({<<>>, <<"2">>}),
           interpMethod : Maybe({<<>>, <<"bilinear">>}),
           fillValue    : Maybe({<<>>, <<"np", ".", "NaN">>, <<"7">>})]
    IN {[k \in {key \in DOMAIN c : c[key] # <<"absent">>} |-> c[k][2]] : c \in choices}

ValidRef == [lat |-> F(2), lon |-> F(3)]

NaNRef == [lat |-> NaN, lon |-> NaN]

MetaIdle ==
    /\ mAtrIn = <<>>
    /\ mAtr = <<>>
    /\ mPrev = <<>>
    /\ mCalls = 0
    /\ mFn = "none"
    /\ mRaised = FALSE

RunStart ==
    /\ pc = "start"
    /\ inps = <<>>
    /\ res_obj = None
    /\ idx = 0
    /\ resampleLog = <<>>
    /\ writeLog = <<>>
    /\ retval = None

\* Runs that differ in the options the template can also set: one radar file,
\* a lookup table, every combination of command line and template.
InitResolve ==
    /\ \E snwe \in {None, <<F(0), F(2), F(0), F(2)>>},
          lat \in {None, <<F(1)>>}, lon \in {None, <<F(1)>>},
          im \in {None, <<"nearest">>, <<"bilinear">>},
          fv \in {None, <<F(0)>>},
          tf \in {None, <<"t.txt">>} :
            /\ argv = [BaseArgv EXCEPT !.SNWE = snwe, !.latStep = lat, !.lonStep = lon,
                                       !.interpMethod = im, !.fillValue = fv,
                                       !.templateFile = tf]
            /\ IF tf = None THEN template = <<>> ELSE template \in Templates
    /\ fileList = <<P1>>
    /\ fileAtr = [p \in CandidatePaths |-> RadarAtr]
    /\ lookupPath = LookupFile
    /\ refLatLon = ValidRef
    /\ fresh = {}

\* Runs that differ in the files found, their coordinate systems, the lookup
\* table, the direction, the update mode and the output naming options.
InitRun ==
    /\ \E r2g \in BOOLEAN, um \in BOOLEAN,
          of \in {None, <<"out.h5">>, <<"geo_", "a.h5">>},
          od \in {None, <<"GEOCODE">>},
          ds \in {None, <<"height">>} :
            argv = [BaseArgv EXCEPT !.radar2geo = r2g, !.updateMode = um, !.outfile = of,
                                    !.out_dir = od, !.dset = ds]
    /\ template = <<>>
    /\ fileList \in FileLists
    /\ \E geocoded \in SUBSET Range(fileList) :
          fileAtr = [p \in CandidatePaths |-> IF p \in geocoded THEN GeoAtr ELSE RadarAtr]
    /\ lookupPath \in {None, LookupFile}
    /\ refLatLon \in {ValidRef, NaNRef}
    /\ fresh \in SUBSET {auto_output_filename(fileList[k],
                            [cmd_line_parse(argv) EXCEPT !.file = fileList]) :
                         k \in 1..Len(fileList)}

Init ==
    /\ InitResolve \/ InitRun
    /\ RunStart
    /\ MetaIdle

---------------------------------------------------------------------------
(* main                                                                    *)

\* inps = cmd_line_parse(iargs)
CmdLineParse ==
    /\ pc = "start"
    /\ inps' = cmd_line_parse(argv)
    /\ pc' = "parsed"
    /\ UNCHANGED <<argv, template, fileList, fileAtr, lookupPath, refLatLon, fresh,
                   res_obj, idx, resampleLog, writeLog, retval>>
    /\ UNCHANGED metaVars

\* if inps.templateFile: inps = read_template2inps(inps.templateFile, inps)
ReadTemplate ==
    /\ pc = "parsed"
    /\ inps.templateFile # None
    /\ inps' = read_template2inps(template, inps)
    /\ pc' = "template_read"
    /\ UNCHANGED <<argv, template, fileList, fileAtr, lookupPath, refLatLon, fresh,
                   res_obj, idx, resampleLog, writeLog, retval>>
    /\ UNCHANGED metaVars

\* inps = _check_inps(inps): returns, raises, or sys.exit(0)
CheckInps ==
    /\ \/ pc = "parsed" /\ inps.templateFile = None
       \/ pc = "template_read"
    /\ LET r == _check_inps(inps, fileList, fileAtr, lookupPath) IN
          /\ inps' = r.inps
          /\ pc' = IF r.outcome = "ok" THEN "run_resample" ELSE r.outcome
    /\ UNCHANGED <<argv, template, fileList, fileAtr, lookupPath, refLatLon, fresh,
                   res_obj, idx, resampleLog, writeLog, retval>>
    /\ UNCHANGED metaVars

\* run_resample, lines 242-246: build the geometry shared by all files.
PrepareGeometry ==
    /\ pc = "run_resample"
    /\ res_obj' = <<resample(inps.lookupFile, inps.file[1], inps.SNWE, inps.laloStep)>>
    /\ idx' = 1
    /\ pc' = "loop"
    /\ UNCHANGED <<argv, template, fileList, fileAtr, lookupPath, refLatLon, fresh,
                   inps, resampleLog, writeLog, retval>>
    /\ UNCHANGED metaVars

\* ut.update_file(outfile, [infile, lookupFile]): TRUE when the output has to
\* be (re)made.
update_file(outfile, freshNow) == outfile \notin freshNow

\* The test of line 252.
SkipThisFile(ns, infile, freshNow) ==
    ns.updateMode /\ ~update_file(auto_output_filename(infile, ns), freshNow)

\* Lines 252-254: update mode finds the output of the current file up to date.
SkipFile ==
    /\ pc = "loop"
    /\ idx <= Len(inps.file)
    /\ SkipThisFile(inps, inps.file[idx], fresh)
    /\ retval' = auto_output_filename(inps.file[idx], inps)
    /\ pc' = "done"
    /\ UNCHANGED <<argv, template, fileList, fileAtr, lookupPath, refLatLon, fresh,
                   inps, res_obj, idx, resampleLog, writeLog>>
    /\ UNCHANGED metaVars

\* Lines 273-275: a single dataset other than 'timeseries' names the file type
\* and drops the reference file.
SingleDataset(dsNames) == Len(dsNames) = 1 /\ dsNames[Len(dsNames)] # <<"timeseries">>

\* Lines 256-277: resample every dataset of the current file, update the
\* metadata and write the output.
ResampleFile ==
    /\ pc = "loop"
    /\ idx <= Len(inps.file)
    /\ ~SkipThisFile(inps, inps.file[idx], fresh)
    /\ LET infile  == inps.file[idx]
           outfile == auto_output_filename(infile, inps)
           dsNames == get_dataset_list(infile, inps.dset)
           m       == IF inps.radar2geo
                      THEN metadata_radar2geo(fileAtr[infile], res_obj[1], refLatLon)
                      ELSE metadata_geo2radar(fileAtr[infile], res_obj[1])
           atr     == IF SingleDataset(dsNames)
                      THEN SetItem(m.atr, "FILE_TYPE", dsNames[1])
                      ELSE m.atr
       IN /\ resampleLog' = resampleLog \o
                              [k \in 1..Len(dsNames) |-> <<infile, dsNames[k]>>]
          /\ IF m.raised
             THEN /\ pc' = "KeyError"
                  /\ UNCHANGED <<writeLog, fresh, idx>>
             ELSE /\ writeLog' = Append(writeLog,
                        [out_file |-> outfile,
                         metadata |-> atr,
                         datasets |-> dsNames,
                         ref_file |-> IF SingleDataset(dsNames) THEN None ELSE infile,
                         infile   |-> infile])
                  /\ fresh' = fresh \cup {outfile}
                  /\ idx' = idx + 1
                  /\ pc' = "loop"
    /\ UNCHANGED <<argv, template, fileList, fileAtr, lookupPath, refLatLon,
                   inps, res_obj, retval>>
    /\ UNCHANGED metaVars

\* Lines 279-281: the loop is over; return the last output path.
Finish ==
    /\ pc = "loop"
    /\ idx > Len(inps.file)
    /\ retval' = auto_output_filename(inps.file[Len(inps.file)], inps)
    /\ pc' = "done"
    /\ UNCHANGED <<argv, template, fileList, fileAtr, lookupPath, refLatLon, fresh,
                   inps, res_obj, idx, resampleLog, writeLog>>
    /\ UNCHANGED metaVars

Next ==
    \/ CmdLineParse
    \/ ReadTemplate
    \/ CheckInps
    \/ PrepareGeometry
    \/ SkipFile
    \/ ResampleFile
    \/ Finish

Spec == Init /\ [][Next]_vars

---------------------------------------------------------------------------
(* The metadata transforms called directly, each on its own output again.  *)

\* Number of successive calls of a transform.
MaxCalls == 2

MetaKeys ==
    {"Y_FIRST", "X_FIRST", "Y_STEP", "X_STEP", "Y_UNIT", "X_UNIT",
     "REF_Y", "REF_X", "REF_LAT", "REF_LON", "LENGTH", "PROJECT_NAME"}

\* The value an input map holds for a key.
InValue(k) ==
    CASE k \in {"Y_UNIT", "X_UNIT"} -> <<"degrees">>
      [] k = "PROJECT_NAME" -> <<"p">>
      [] OTHER -> <<"1">>

MetaRes == resample(LookupFile, P1, None, None)

RunIdle ==
    /\ argv = BaseArgv
    /\ template = <<>>
    /\ fileList = <<>>
    /\ fileAtr = [p \in CandidatePaths |-> RadarAtr]
    /\ lookupPath = LookupFile
    /\ fresh = {}
    /\ inps = <<>>
    /\ pc = "lib"
    /\ res_obj = None
    /\ idx = 0
    /\ resampleLog = <<>>
    /\ writeLog = <<>>
    /\ retval = None

InitMeta ==
    /\ RunIdle
    /\ \E keys \in SUBSET MetaKeys : mAtrIn = [k \in keys |-> InValue(k)]
    /\ mAtr = mAtrIn
    /\ mPrev = mAtrIn
    /\ mCalls = 0
    /\ mRaised = FALSE
    /\ \/ /\ mFn = "radar2geo"
          /\ refLatLon \in [lat : {F(2), NaN}, lon : {F(3), NaN}]
       \/ /\ mFn = "geo2radar"
          /\ refLatLon = ValidRef

\* atr = metadata_radar2geo(atr, res_obj)
CallRadar2Geo ==
    /\ pc = "lib"
    /\ mFn = "radar2geo"
    /\ mCalls < MaxCalls
    /\ ~mRaised
    /\ LET r == metadata_radar2geo(mAtr, MetaRes, refLatLon) IN
          /\ mAtr' = r.atr
          /\ mRaised' = r.raised
    /\ mPrev' = mAtr
    /\ mCalls' = mCalls + 1
    /\ UNCHANGED <<mAtrIn, mFn, refLatLon>>
    /\ UNCHANGED runVars

\* atr = metadata_geo2radar(atr, res_obj)
CallGeo2Radar ==
    /\ pc = "lib"
    /\ mFn = "geo2radar"
    /\ mCalls < MaxCalls
    /\ ~mRaised
    /\ LET r == metadata_geo2radar(mAtr, MetaRes) IN
          /\ mAtr' = r.atr
          /\ mRaised' = r.raised
    /\ mPrev' = mAtr
    /\ mCalls' = mCalls + 1
    /\ UNCHANGED <<mAtrIn, mFn, refLatLon>>
    /\ UNCHANGED runVars

NextMeta == CallRadar2Geo \/ CallGeo2Radar

SpecMeta == InitMeta /\ [][NextMeta]_vars

---------------------------------------------------------------------------
(* Properties.                                                             *)

\* _check_inps returned normally: the options are resolved.
Resolved == pc \in {"run_resample", "loop", "done", "KeyError"}

\* _check_inps has run, however it ended.
Checked == pc \notin {"start", "parsed", "template_read", "lib"}

FirstIsGeocoded == "Y_FIRST" \in DOMAIN fileAtr[fileList[1]]

WrittenFiles == {writeLog[k].infile : k \in 1..Len(writeLog)}

ResampledFiles == {resampleLog[k][1] : k \in 1..Len(resampleLog)}

\* What float() and the SNWE and fillValue coercions are to make of the
\* template values of the model.
TemplateValue(key) ==
    CASE key = "SNWE" -> <<F(1), F(3), F(5), F(7)>>
      [] key = "latStep" -> <<F(2)>>
      [] key = "lonStep" -> <<F(2)>>
      [] key = "interpMethod" -> <<"bilinear">>
      [] key = "fillValue" -> IF template["fillValue"] = <<"7">> THEN F(7) ELSE NaN

\* The value of the parsed command line for a field: the one supplied, or
\* the parser's default.
CmdLineValue(key) ==
    CASE key = "SNWE" -> argv.SNWE
      [] key = "latStep" -> argv.latStep
      [] key = "lonStep" -> argv.lonStep
      [] key = "interpMethod" ->
            IF argv.interpMethod = None THEN <<"nearest">> ELSE argv.interpMethod
      [] key = "fillValue" -> IF argv.fillValue = None THEN NaN ELSE argv.fillValue[1]

MergedKeys == {"SNWE", "latStep", "lonStep", "interpMethod", "fillValue"}

C2_UpdateSkipsOnlyUpToDate ==
    (pc = "done" /\ inps.updateMode) =>
        \A k \in 1..Len(inps.file) :
            LET out == auto_output_filename(inps.file[k], inps)
                wasFresh == out \in fresh
                            /\ \A j \in 1..Len(writeLog) : writeLog[j].out_file # out
            IN /\ (inps.file[k] \in WrittenFiles) <=> ~wasFresh
               /\ (inps.file[k] \in ResampledFiles) <=> ~wasFresh

C4_DirectionCheck ==
    (Checked /\ fileList # <<>>) =>
        /\ (pc = "exit0") <=> (\/ FirstIsGeocoded /\ argv.radar2geo
                               \/ ~FirstIsGeocoded /\ ~argv.radar2geo)
        /\ (pc = "exit0") =>
             /\ res_obj = None
             /\ resampleLog = <<>>
             /\ writeLog = <<>>
             /\ retval = None

\* A geo to radar run on a file in radar coordinates has exited.
C4_Witness ==
    /\ pc = "exit0"
    /\ ~argv.radar2geo
    /\ ~FirstIsGeocoded
    /\ Len(fileList) = 2

RefKeys == {"REF_Y", "REF_X", "REF_LAT", "REF_LON"}

\* C5 (as claimed): metadata_radar2geo on a map with REF_Y and REF_X, when the
\* lookup gives NaN for the reference latitude or longitude, does not raise
\* and returns a map with none of REF_Y, REF_X, REF_LAT, REF_LON.
C5_RefKeysDropped ==
    (/\ mFn = "radar2geo"
     /\ mCalls = 1
     /\ {"REF_Y", "REF_X"} \subseteq DOMAIN mAtrIn
     /\ (isnan(refLatLon.lat) \/ isnan(refLatLon.lon))) =>
        /\ ~mRaised
        /\ DOMAIN mAtr \cap RefKeys = {}

\* C6: the resolved laloStep is None when latStep or lonStep is None and is
\* [latStep, lonStep] when both are set, and the resample object is built
\* with that laloStep.
C6_BothOrNeither ==
    (Resolved \/ pc = "template_read") =>
        /\ (inps.latStep = None \/ inps.lonStep = None) => inps.laloStep = None
        /\ (inps.latStep # None /\ inps.lonStep # None) =>
               inps.laloStep = <<inps.latStep[1], inps.lonStep[1]>>
        /\ res_obj # None => res_obj[1].laloStepArg = inps.laloStep

\* The geometry was built for a request whose latitude step came from the
\* template and whose longitude step nobody set.
C6_Witness ==
    /\ pc = "loop"
    /\ argv.latStep = None
    /\ inps.latStep = <<F(2)>>
    /\ inps.lonStep = None
    /\ res_obj # None
    /\ res_obj[1].laloStepArg = None

\* The prefixed output name of an input file.
PrefixedName(infile) ==
    LET name == (IF argv.radar2geo THEN <<"geo_">> ELSE <<"rdr_">>)
                \o (IF argv.dset # None THEN argv.dset \o <<".h5">> ELSE basename(infile))
    IN IF argv.out_dir # None THEN argv.out_dir \o <<"/">> \o name ELSE name

\* C7: with more than one input file the resolved outfile is None and every
\* output path is the prefixed name; with exactly one input file and --output
\* given, the output path is the --output value.
C7_OutfileOnlyForOneFile ==
    Checked =>
        /\ Len(fileList) > 1 =>
             /\ inps.outfile = None
             /\ \A k \in 1..Len(writeLog) :
                    writeLog[k].out_file = PrefixedName(writeLog[k].infile)
             /\ retval # None => \E k \in 1..Len(fileList) : retval = PrefixedName(fileList[k])
        /\ Len(fileList) = 1 =>
             /\ inps.outfile = argv.outfile
             /\ \A k \in 1..Len(writeLog) :
                    writeLog[k].out_file = IF argv.outfile # None THEN argv.outfile
                                           ELSE PrefixedName(writeLog[k].infile)

\* Two files were written although --output was given.
C7_Witness ==
    /\ pc = "done"
    /\ Len(fileList) = 2
    /\ argv.outfile = <<"out.h5">>
    /\ Len(writeLog) = 2
    /\ inps.outfile = None

\* C8: metadata_geo2radar never raises; its output has none of the ten
\* removed keys, keeps every other input key (LENGTH and WIDTH apart) with its
\* value, has LENGTH and WIDTH of the geometry; a second call changes nothing.
C8_Geo2Radar ==
    (mFn = "geo2radar" /\ mCalls >= 1) =>
        /\ ~mRaised
        /\ DOMAIN mAtr \cap Range(RemovedKeys) = {}
        /\ \A k \in DOMAIN mAtrIn \ (Range(RemovedKeys) \cup {"LENGTH", "WIDTH"}) :
               k \in DOMAIN mAtr /\ mAtr[k] = mAtrIn[k]
        /\ {"LENGTH", "WIDTH"} \subseteq DOMAIN mAtr
        /\ mAtr["LENGTH"] = MetaRes.length
        /\ mAtr["WIDTH"] = MetaRes.width
        /\ mCalls >= 2 => mAtr = mPrev

\* metadata_geo2radar was called twice on a map that holds REF_LON and
\* Y_FIRST but neither REF_LAT nor X_FIRST.
C8_Witness ==
    /\ mFn = "geo2radar"
    /\ mCalls = 2
    /\ {"Y_FIRST", "REF_LON", "PROJECT_NAME"} \subseteq DOMAIN mAtrIn
    /\ "REF_LAT" \notin DOMAIN mAtrIn
    /\ "X_FIRST" \notin DOMAIN mAtrIn

\* C9 (as claimed): the output paths written in one run are pairwise
\* distinct, and a run that returns without skipping leaves one output per
\* input file.
C9_DistinctOutputs ==
    /\ \A a, b \in 1..Len(writeLog) :
           a # b => writeLog[a].out_file # writeLog[b].out_file
    /\ (pc = "done" /\ Len(writeLog) = Len(inps.file)) =>
           Cardinality({writeLog[k].out_file : k \in 1..Len(writeLog)}) = Len(inps.file)

\* C10 (as claimed): every file resampled or written is in the source
\* coordinate system of the direction.
C10_OnlySourceSystemResampled ==
    \A f \in WrittenFiles \cup ResampledFiles :
        ("Y_FIRST" \in DOMAIN fileAtr[f]) = ~argv.radar2geo

====
